---- MODULE Spec2Model ----
(***************************************************************************)
(* A model of the fragment assembler (src/main.py): Context, the           *)
(* ExpressionParser, interpret() and the built-in operations of            *)
(* Interpreter.                                                            *)
(*                                                                         *)
(* A Python string is a sequence of one-character strings.  Python indexes *)
(* from 0 and the model keeps the code's 0-based indices; At and Slice do  *)
(* the shift to TLA+'s 1-based sequences.                                  *)
(*                                                                         *)
(* A call of a Python function is an operator that returns the record      *)
(*   [exc, val, idx, log]                                                  *)
(* exc is "None" for a normal return and the exception's class name        *)
(* otherwise, val is the returned value, idx is the parser's self.idx      *)
(* after the call (only parse() changes it) and log is the history of      *)
(* what has been done so far: attribute lookups, operation calls and       *)
(* context reads, in order.  The parameter d is the depth of the Python    *)
(* call stack at which the call runs.                                      *)
(***************************************************************************)
EXTENDS Integers, Sequences, FiniteSets, TLC

VARIABLES
    ctxs,     \* the Context objects, in order of construction
    lastPut,  \* history: per context and key, the value most recently bound
    cur,      \* the context an evaluation is run in (an index into ctxs)
    tree,     \* SpecParse: the expression, as a term
    style,    \* SpecParse: how the term was written down
    text,     \* the string handed to interpret() or to the parser
    pc,       \* "ready" before the call, "done" after it
    res       \* the call's outcome

vars == <<ctxs, lastPut, cur, tree, style, text, pc, res>>

(***************************************************************************)
(* Bounds                                                                  *)
(***************************************************************************)
\* Context objects in SpecCtx.
MaxCtx == 3
\* Pieces a text of SpecEval is put together from.
MaxPieces == 4
\* The Python call stack's depth limit (sys.getrecursionlimit(), 1000 in
\* CPython), scaled down.
RecursionLimit == 24

(***************************************************************************)
(* Strings                                                                 *)
(***************************************************************************)
SEC == "§"
LP == "("
RP == ")"
COMMA == ","
SP == " "

At(e, i) == e[i + 1]
Slice(e, a, b) == SubSeq(e, a + 1, b)

RECURSIVE lstrip(_)
lstrip(s) == IF s # <<>> /\ Head(s) = SP THEN lstrip(Tail(s)) ELSE s

RECURSIVE rstrip(_)
rstrip(s) ==
    IF s # <<>> /\ s[Len(s)] = SP THEN rstrip(SubSeq(s, 1, Len(s) - 1)) ELSE s

strip(s) == rstrip(lstrip(s))

RECURSIVE join(_)
join(output) == IF output = <<>> THEN <<>> ELSE Head(output) \o join(Tail(output))

\* text.split(u"§"), reading from the right: the parts of s, the last one
\* being what follows the last delimiter.
RECURSIVE split(_)
split(s) ==
    IF s = <<>> THEN << <<>> >>
    ELSE LET p == split(SubSeq(s, 1, Len(s) - 1))
             n == Len(p)
         IN  IF s[Len(s)] = SEC
             THEN Append(p, <<>>)
             ELSE [p EXCEPT ![n] = Append(@, s[Len(s)])]

RECURSIVE Count(_, _)
Count(s, ch) ==
    IF s = <<>> THEN 0
    ELSE (IF Head(s) = ch THEN 1 ELSE 0) + Count(Tail(s), ch)

(***************************************************************************)
(* Context                                                                 *)
(***************************************************************************)
\* Keys and values of the contexts of SpecCtx.
CtxKeys == {<<"k">>, <<"m">>}
CtxVals == {<<"X">>, <<"Y">>}

NoParent == 0

\* Context.__init__
Context(parent, fragments) == [parent |-> parent, fragments |-> fragments]

\* Context.put, on the fragments of one context
put_overwrite_lost(fragments, key, frag) ==
    IF key \in DOMAIN fragments THEN fragments
    ELSE [x \in DOMAIN fragments \cup {key} |-> IF x = key THEN frag ELSE fragments[x]]

put(fragments, key, frag) ==
    [x \in DOMAIN fragments \cup {key} |-> IF x = key THEN frag ELSE fragments[x]]

Return(val, idx, log) == [exc |-> "None", val |-> val, idx |-> idx, log |-> log]
Raise(exc, idx, log) == [exc |-> exc, val |-> <<>>, idx |-> idx, log |-> log]

\* Context.get: the local bindings first, then the parent's get.
RECURSIVE get(_, _, _, _, _)
get(cs, c, key, d, log) ==
    IF d > RecursionLimit THEN Raise("RecursionError", 0, log)
    ELSE IF key \in DOMAIN cs[c].fragments
         THEN Return(cs[c].fragments[key], 0, Append(log, <<"get", key, <<>>>>))
    ELSE IF cs[c].parent # NoParent
         THEN get(cs, cs[c].parent, key, d + 1, log)
    ELSE Raise("KeyError", 0, Append(log, <<"get", key, <<>>>>))

NoFragments == [x \in {} |-> <<>>]
NoTree == <<>>
NoRes == Return(<<>>, 0, <<>>)

(***************************************************************************)
(* Interpreter: the operations an expression can name                      *)
(***************************************************************************)
include_name == <<"i", "n", "c", "l", "u", "d", "e">>
include_conditional_name ==
    <<"i", "n", "c", "l", "u", "d", "e", "_", "c", "o", "n", "d", "i", "t", "i", "o", "n", "a", "l">>
sec_name == <<"s", "e", "c">>
var_name == <<"v", "a", "r">>
localize_name == <<"l", "o", "c", "a", "l", "i", "z", "e">>
\* A name that is no attribute of the interpreter.
nope_name == <<"n", "o", "p", "e">>
lang_key == <<"l", "a", "n", "g">>
de == <<"d", "e">>
en == <<"e", "n">>

\* The operations getattr(self.interpreter, v) finds: Interpreter's four and
\* MyInterpreter.localize.  (getattr also finds MyInterpreter's dic, nav and
\* nav_bar, which read the page descriptors, and the attributes every Python
\* object has; no text of the model names any of them.)
Registry ==
    {include_name, include_conditional_name, sec_name, var_name, localize_name}

\* The number of parameters after (self, context).
Arity(v) ==
    CASE v = sec_name -> 0
      [] v = localize_name -> 2
      [] OTHER -> 1

\* LANG_TO_PROJ[lang](de_, en_)
LANG_TO_PROJ(lang, de_, en_) == IF lang = de THEN de_ ELSE en_

\* The exceptions the try statements of include_conditional and var catch.
Caught_IndexError == {"IndexError"}

Caught_bare_except == {"KeyError", "AttributeError", "TypeError", "RecursionError"}

Caught == {"KeyError"}

\* Whether the k-th part (1-based) of text.split(u"§") goes to the parser:
\* interpret() takes a literal, then an expression, in turns.
IsExpressionPart_shifted(k) == k % 2 = 1

IsExpressionPart(k) == k % 2 = 0

\* The characters that end the scan of a head token (line 86).
Structural == {LP, COMMA, RP}

\* while i < l and e[i] not in "(,)": i += 1
RECURSIVE scan(_, _)
scan(e, i) ==
    IF i < Len(e) /\ At(e, i) \notin Structural THEN scan(e, i + 1) ELSE i

\* The index parse() leaves in self.idx after an atomic token that ends at i
\* (lines 89-97).
AfterAtom(e, i) ==
    IF i = Len(e) THEN i
    ELSE IF At(e, i) = COMMA THEN i + 1
    ELSE i

\* Whether the loop of line 101 takes another argument.
MoreArgs(e, idx) == idx < Len(e) /\ At(e, idx) # RP

RECURSIVE parse(_, _, _, _, _, _)
RECURSIVE parseArgs(_, _, _, _, _, _, _)
RECURSIVE interpret(_, _, _, _, _)
RECURSIVE interpretLoop(_, _, _, _, _, _, _)
RECURSIVE include(_, _, _, _, _)

\* Interpreter.include
include(cs, c, key, d, log) ==
    IF d > RecursionLimit THEN Raise("RecursionError", 0, log)
    ELSE LET g == get(cs, c, key, d + 1, log)
         IN  IF g.exc # "None" THEN g
             ELSE interpret(cs, c, g.val, d + 1, g.log)

\* Interpreter.include_conditional
include_conditional(cs, c, key, d, log) ==
    IF d > RecursionLimit THEN Raise("RecursionError", 0, log)
    ELSE LET r == include(cs, c, key, d + 1, log)
         IN  IF r.exc \in Caught THEN Return(<<>>, 0, r.log) ELSE r

\* Interpreter.sec
sec(cs, c, d, log) ==
    IF d > RecursionLimit THEN Raise("RecursionError", 0, log)
    ELSE Return(<<SEC>>, 0, log)

\* Interpreter.var
var(cs, c, key, d, log) ==
    IF d > RecursionLimit THEN Raise("RecursionError", 0, log)
    ELSE LET g == get(cs, c, key, d + 1, log)
         IN  IF g.exc \in Caught THEN Return(<<>>, 0, g.log) ELSE g

\* MyInterpreter.localize
localize(cs, c, de_, en_, d, log) ==
    IF d > RecursionLimit THEN Raise("RecursionError", 0, log)
    ELSE LET g == get(cs, c, lang_key, d + 1, log)
         IN  IF g.exc # "None" THEN g
             ELSE IF g.val \notin {de, en} THEN Raise("KeyError", 0, g.log)
             ELSE Return(LANG_TO_PROJ(g.val, de_, en_), 0, g.log)

\* getattr(self.interpreter, v)(self.context, *args), line 103.  The lookup
\* fails with AttributeError; a call with the wrong number of arguments fails
\* with TypeError before the method's body runs.
dispatch(cs, c, v, args, idx, d, log) ==
    LET log1 == Append(log, <<"getattr", v, <<>>>>)
        log2 == Append(log1, <<"call", v, args>>)
    IN  IF v \notin Registry THEN Raise("AttributeError", idx, log1)
        ELSE IF Len(args) # Arity(v) THEN Raise("TypeError", idx, log1)
        ELSE LET r == CASE v = include_name -> include(cs, c, args[1], d, log2)
                        [] v = include_conditional_name ->
                               include_conditional(cs, c, args[1], d, log2)
                        [] v = sec_name -> sec(cs, c, d, log2)
                        [] v = var_name -> var(cs, c, args[1], d, log2)
                        [] v = localize_name ->
                               localize(cs, c, args[1], args[2], d, log2)
             IN  [r EXCEPT !.idx = idx]

(***************************************************************************)
(* ExpressionParser                                                        *)
(***************************************************************************)
\* The loop of lines 101-102: args.append(self.parse()) while MoreArgs.
\* The result's val is args.
parseArgs(cs, c, e, idx, args, d, log) ==
    IF MoreArgs(e, idx)
    THEN LET r == parse(cs, c, e, idx, d + 1, log)
         IN  IF r.exc # "None" THEN r
             ELSE parseArgs(cs, c, e, r.idx, Append(args, r.val), d, r.log)
    ELSE Return(args, idx, log)

\* ExpressionParser.parse, with self.expression = e and self.idx = idx
parse(cs, c, e, idx, d, log) ==
    IF d > RecursionLimit THEN Raise("RecursionError", idx, log)
    ELSE LET i == scan(e, idx)
             v == strip(Slice(e, idx, i))
         IN  IF i = Len(e) \/ At(e, i) # LP
             THEN Return(v, AfterAtom(e, i), log)
             ELSE LET a == parseArgs(cs, c, e, i + 1, <<>>, d, log)
                  IN  IF a.exc # "None" THEN a
                      ELSE dispatch(cs, c, v, a.val, a.idx, d + 1, a.log)

(***************************************************************************)
(* interpret                                                               *)
(***************************************************************************)
\* The loop of lines 112-114 over the parts of the text, the k-th being
\* next; StopIteration ends it wherever the parts run out.
interpretLoop(cs, c, parts, k, output, d, log) ==
    IF k > Len(parts) THEN Return(join(output), 0, log)
    ELSE IF IsExpressionPart(k)
         THEN LET r == parse(cs, c, parts[k], 0, d + 1, log)
              IN  IF r.exc # "None" THEN [r EXCEPT !.idx = 0]
                  ELSE interpretLoop(cs, c, parts, k + 1,
                                     Append(output, r.val), d, r.log)
         ELSE interpretLoop(cs, c, parts, k + 1, Append(output, parts[k]), d, log)

interpret(cs, c, fragment_text, d, log) ==
    IF d > RecursionLimit THEN Raise("RecursionError", 0, log)
    ELSE interpretLoop(cs, c, split(fragment_text), 1, <<>>, d, log)

(***************************************************************************)
(* SpecCtx: contexts are constructed and bound                             *)
(***************************************************************************)
InitCtx ==
    /\ ctxs = <<>>
    /\ lastPut = <<>>
    /\ cur = 0
    /\ tree = NoTree
    /\ style = "none"
    /\ text = <<>>
    /\ pc = "ready"
    /\ res = NoRes

\* Context(parent) and Context(parent, {key: frag})
NewContext ==
    /\ Len(ctxs) < MaxCtx
    /\ \E parent \in 0..Len(ctxs) :
       \E fragments \in {NoFragments} \cup
                        {[x \in {key} |-> frag] : key \in CtxKeys, frag \in CtxVals} :
          /\ ctxs' = Append(ctxs, Context(parent, fragments))
          /\ lastPut' = Append(lastPut, fragments)
    /\ UNCHANGED <<cur, tree, style, text, pc, res>>

\* c.put(key, frag)
Put ==
    /\ \E c \in 1..Len(ctxs), key \in CtxKeys, frag \in CtxVals :
          /\ ctxs' = [ctxs EXCEPT ![c].fragments = put(@, key, frag)]
          /\ lastPut' = [lastPut EXCEPT ![c] =
                            [x \in DOMAIN @ \cup {key} |-> IF x = key THEN frag ELSE @[x]]]
    /\ UNCHANGED <<cur, tree, style, text, pc, res>>

NextCtx == NewContext \/ Put

SpecCtx == InitCtx /\ [][NextCtx]_vars

(***************************************************************************)
(* SpecParse: ExpressionParser(interpreter, context, text).parse() on the  *)
(* expressions of the grammar of the class's docstring                     *)
(***************************************************************************)
\* A term is <<token>> (atomic) or <<token, <<term, ..., term>>>> (composite).
IsAtomic(t) == Len(t) = 1

Atoms == {<<"k">>, <<"x">>}
Heads == {include_name, sec_name, var_name, localize_name, nope_name}

ArgLists(S) == {<<>>} \cup {<<a>> : a \in S} \cup {<<a, b>> : a \in S, b \in S}

Terms0 == {<<a>> : a \in Atoms}
Terms1 == Terms0 \cup {<<h, args>> : h \in Heads, args \in ArgLists(Terms0)}
Terms2 == Terms1 \cup {<<h, args>> : h \in Heads, args \in ArgLists(Terms1)}

\* How a term is written: "plain" without whitespace, "spaced" with a blank
\* on both sides of every token and structural character, "open" as plain
\* with the last closing parenthesis left out.
Styles == {"plain", "spaced", "open"}

RECURSIVE Render(_, _)
RECURSIVE RenderArgs(_, _)
RenderArgs(args, sp) ==
    IF args = <<>> THEN <<>>
    ELSE IF Len(args) = 1 THEN Render(args[1], sp)
    ELSE Render(args[1], sp) \o <<COMMA>> \o RenderArgs(Tail(args), sp)

Render(t, sp) ==
    IF IsAtomic(t) THEN sp \o t[1] \o sp
    ELSE sp \o t[1] \o sp \o <<LP>> \o sp \o RenderArgs(t[2], sp) \o sp \o <<RP>> \o sp

Written(t, st) ==
    CASE st = "plain" -> Render(t, <<>>)
      [] st = "spaced" -> Render(t, <<SP>>)
      [] st = "open" -> LET r == Render(t, <<>>)
                        IN  IF IsAtomic(t) THEN r ELSE SubSeq(r, 1, Len(r) - 1)

\* The docstring's eval: eval(atomic) = atomic and
\* eval(atomic(expr1, ..., exprk)) =
\*     interpreter.atomic(context, eval(expr1), ..., eval(exprk)).
RECURSIVE eval(_, _, _, _, _)
RECURSIVE evalArgs(_, _, _, _, _, _)
evalArgs(cs, c, ts, args, d, log) ==
    IF ts = <<>> THEN Return(args, 0, log)
    ELSE LET r == eval(cs, c, Head(ts), d + 1, log)
         IN  IF r.exc # "None" THEN r
             ELSE evalArgs(cs, c, Tail(ts), Append(args, r.val), d, r.log)

eval(cs, c, t, d, log) ==
    IF IsAtomic(t) THEN Return(t[1], 0, log)
    ELSE LET a == evalArgs(cs, c, t[2], <<>>, d, log)
         IN  IF a.exc # "None" THEN a
             ELSE dispatch(cs, c, t[1], a.val, 0, d + 1, a.log)

\* What a caller sees of a call: how it ended, with what, having done what.
Outcome(r) == <<r.exc, r.val, r.log>>

\* The contexts of SpecParse: a page context bound to lang and k, and the
\* localized context under it; x is bound nowhere.
ParseCtxs ==
    << Context(NoParent, [y \in {lang_key, <<"k">>} |->
                              IF y = lang_key THEN en ELSE <<"K">>]),
       Context(1, NoFragments) >>

InitParse ==
    /\ ctxs = ParseCtxs
    /\ lastPut = <<>>
    /\ cur = 2
    /\ tree \in Terms2
    /\ style \in Styles
    /\ text = Written(tree, style)
    /\ pc = "ready"
    /\ res = NoRes

\* ExpressionParser(interpreter, ctxs[cur], text).parse()
Parse ==
    /\ pc = "ready"
    /\ res' = parse(ctxs, cur, text, 0, 1, <<>>)
    /\ pc' = "done"
    /\ UNCHANGED <<ctxs, lastPut, cur, tree, style, text>>

NextParse == Parse

SpecParse == InitParse /\ [][NextParse]_vars

(***************************************************************************)
(* SpecEval: interpret(interpreter, ctxs[cur], text)                       *)
(***************************************************************************)
\* Texts of fragments and pages are put together from these pieces.
Pieces ==
    { <<SEC>>, <<"a">>, <<SP>>,
      sec_name \o <<LP, RP>>,
      var_name \o <<LP, "k", RP>>,
      nope_name \o <<LP, RP>> }

RECURSIVE TextsOf(_)
TextsOf(n) ==
    IF n = 0 THEN {<<>>}
    ELSE LET shorter == TextsOf(n - 1)
         IN  shorter \cup {t \o p : t \in shorter, p \in Pieces}

Call(h, key) == <<SEC>> \o h \o <<LP>> \o key \o <<RP, SEC>>

EvalKeys == {<<"k">>, <<"m">>}

\* What a context can bind a key to.
FragTexts ==
    { <<"X">>,
      <<"a">> \o Call(var_name, <<"m">>) \o <<"b">>,
      Call(include_name, <<"m">>),
      Call(include_name, <<"k">>),
      Call(include_conditional_name, <<"m">>),
      Call(nope_name, <<"x">>),
      <<SEC>> \o nope_name \o <<LP>> \o include_name \o <<LP, "m", RP, RP, SEC>> }

\* The texts evaluated at the top: one expression, alone or inside a literal.
TopTexts ==
    {Call(h, key) : h \in {include_name, include_conditional_name, var_name},
                    key \in EvalKeys}
    \cup { <<"a">> \o Call(include_conditional_name, <<"k">>) \o <<"b">>,
           Call(nope_name, <<"x">>),
           <<SEC>> \o nope_name \o <<LP>> \o include_name \o <<LP, "x", RP, RP, SEC>> }

Bindings == [EvalKeys -> FragTexts \cup {<<>>}]

\* The dict with the keys b binds; <<>> stands for "not bound".
Dict(b) == [key \in {y \in EvalKeys : b[y] # <<>>} |-> b[key]]

InitScan ==
    /\ ctxs = << Context(NoParent, [y \in {<<"k">>} |-> <<"K">>]) >>
    /\ cur = 1
    /\ text \in TextsOf(MaxPieces)

InitInclude ==
    /\ \E b1 \in Bindings, b2 \in Bindings :
          ctxs = << Context(NoParent, Dict(b1)), Context(1, Dict(b2)) >>
    /\ cur = 2
    /\ text \in TopTexts

InitEval ==
    /\ InitScan \/ InitInclude
    /\ lastPut = <<>>
    /\ tree = NoTree
    /\ style = "none"
    /\ pc = "ready"
    /\ res = NoRes

\* interpret(interpreter, ctxs[cur], text)
Interpret ==
    /\ pc = "ready"
    /\ res' = interpret(ctxs, cur, text, 1, <<>>)
    /\ pc' = "done"
    /\ UNCHANGED <<ctxs, lastPut, cur, tree, style, text>>

NextEval == Interpret

SpecEval == InitEval /\ [][NextEval]_vars

(***************************************************************************)
(* Properties of Context (SpecCtx)                                         *)
(***************************************************************************)
\* The nearest context, from c toward the root, that key was bound in; 0 if
\* there is none.
RECURSIVE Binder(_, _)
Binder(c, key) ==
    IF key \in DOMAIN lastPut[c] THEN c
    ELSE IF ctxs[c].parent = NoParent THEN 0
    ELSE Binder(ctxs[c].parent, key)

RECURSIVE Ancestors(_)
Ancestors(c) ==
    IF ctxs[c].parent = NoParent THEN {}
    ELSE {ctxs[c].parent} \cup Ancestors(ctxs[c].parent)

C6_Lookup ==
    \A c \in 1..Len(ctxs), key \in CtxKeys :
        LET b == Binder(c, key)
            g == get(ctxs, c, key, 1, <<>>)
            p == ctxs[c].parent
        IN  /\ g.exc = "KeyError" <=> b = 0
            /\ b # 0 => g.exc = "None" /\ g.val = lastPut[b][key]
            /\ (b # 0 /\ b # c) =>
                   Outcome(g) = Outcome(get(ctxs, p, key, 1, <<>>))

C6_PutLeavesAncestors ==
    \A c \in 1..Len(ctxs) :
        ctxs'[c].fragments # ctxs[c].fragments =>
            \A a \in Ancestors(c), key \in CtxKeys :
                get(ctxs', a, key, 1, <<>>) = get(ctxs, a, key, 1, <<>>)

\* C6: c.get(key) returns the value most recently put under key in the
\* nearest context from c toward the root that binds key (a local binding
\* shadows an ancestor's; without one, c.get(key) is the parent's get(key));
\* it fails with KeyError exactly when no context from c to the root binds
\* key; and a put on c changes no ancestor's get.
C6_ContextLookup == [](C6_Lookup) /\ [][C6_PutLeavesAncestors]_vars

\* A child shadows its parent's k, after a put, and reads m through it.
C6_Witness ==
    /\ Len(ctxs) >= 2
    /\ ctxs[2].parent = 1
    /\ DOMAIN ctxs[1].fragments = CtxKeys
    /\ DOMAIN ctxs[2].fragments = {<<"k">>}
    /\ ctxs[1].fragments[<<"k">>] = <<"X">>
    /\ ctxs[2].fragments[<<"k">>] = <<"Y">>
    /\ get(ctxs, 2, <<"k">>, 1, <<>>).val = <<"Y">>
    /\ get(ctxs, 2, <<"m">>, 1, <<>>).val = ctxs[1].fragments[<<"m">>]

(***************************************************************************)
(* Properties of ExpressionParser.parse (SpecParse)                        *)
(***************************************************************************)
\* C1: parse() of a composite expression evaluates every argument once, left
\* to right, whatever the position of a composite argument, then calls the
\* operation once with all the values in order and returns its result: for
\* every expression the docstring's eval gives a value to, parse() returns
\* that value after the same lookups, calls and reads in the same order.
C1_ParseIsEval ==
    (/\ pc = "done"
     /\ style = "plain"
     /\ eval(ctxs, cur, tree, 1, <<>>).exc = "None") =>
        Outcome(res) = Outcome(eval(ctxs, cur, tree, 1, <<>>))

\* C4: an expression that ends inside an open argument list makes parse()
\* fail with MalformedExpression; the operation is not called.
C4_UnclosedIsMalformed ==
    (pc = "done" /\ style = "open" /\ ~IsAtomic(tree)) =>
        /\ res.exc = "MalformedExpression"
        /\ \A j \in 1..Len(res.log) : res.log[j][1] # "call"

\* C8: whitespace next to tokens and structural characters changes neither
\* the operation called, nor its arguments, nor the result of parse().
C8_WhitespaceInsignificant ==
    (pc = "done" /\ style = "spaced") =>
        Outcome(res) = Outcome(parse(ctxs, cur, Written(tree, "plain"), 0, 1, <<>>))

(***************************************************************************)
(* Properties of interpret and the built-in operations (SpecEval)          *)
(***************************************************************************)
\* The contexts from c to the root.
RECURSIVE Chain(_)
Chain(c) ==
    IF ctxs[c].parent = NoParent THEN {c} ELSE {c} \cup Chain(ctxs[c].parent)

Unbound(key) == \A c \in Chain(cur) : key \notin DOMAIN ctxs[c].fragments

Contains(s, pat) ==
    \E i \in 1..(Len(s) - Len(pat) + 1) : SubSeq(s, i, i + Len(pat) - 1) = pat

\* The text has an include or include_conditional of key.
Includes(s, key) ==
    \/ Contains(s, include_name \o <<LP>> \o key \o <<RP>>)
    \/ Contains(s, include_conditional_name \o <<LP>> \o key \o <<RP>>)

\* The fragment key resolves to, from cur; <<>> when it is bound nowhere.
Resolved(key) ==
    IF Unbound(key) THEN <<>>
    ELSE LET b == CHOOSE c \in Chain(cur) :
                      /\ key \in DOMAIN ctxs[c].fragments
                      /\ \A c2 \in Chain(cur) :
                             key \in DOMAIN ctxs[c2].fragments => c2 <= c
         IN  ctxs[b].fragments[key]

\* Following includes from key for n more steps is possible.
RECURSIVE IncludePath(_, _)
IncludePath(key, n) ==
    IF n = 0 THEN TRUE
    ELSE \E m \in EvalKeys : Includes(Resolved(key), m) /\ IncludePath(m, n - 1)

\* The evaluation of s runs into a fragment that includes itself, directly
\* or through others: a path of includes longer than there are keys.
ReachesCycle(s) ==
    \E key \in EvalKeys : Includes(s, key) /\ IncludePath(key, Cardinality(EvalKeys))

\* C2: interpret of a text with an odd number of delimiters fails with
\* MalformedExpression and returns no string.
C2_OddDelimitersFail ==
    (pc = "done" /\ Count(text, SEC) % 2 = 1) => res.exc = "MalformedExpression"

\* C3: for a key no context of the chain binds, include(key) fails with
\* KeyError, which reaches the caller, and include_conditional(key) and
\* var(key) return the empty string.
C3_UnboundKey ==
    pc = "done" =>
        \A key \in EvalKeys :
            Unbound(key) =>
                /\ text = Call(include_name, key) => res.exc = "KeyError"
                /\ text = Call(include_conditional_name, key) =>
                       res.exc = "None" /\ res.val = <<>>
                /\ text = Call(var_name, key) => res.exc = "None" /\ res.val = <<>>

C3_Witness ==
    /\ pc = "done"
    /\ Unbound(<<"m">>)
    /\ ~Unbound(<<"k">>)
    /\ text = Call(include_conditional_name, <<"m">>)
    /\ res.exc = "None"
    /\ res.val = <<>>
    /\ res.log # <<>>

\* C5: without an include cycle the evaluation ends, by a return or a
\* failure of its own; with one it ends with CyclicInclude once a depth
\* ceiling is passed.
C5_CycleFailsCyclicInclude ==
    pc = "done" =>
        IF ReachesCycle(text) THEN res.exc = "CyclicInclude"
        ELSE res.exc # "RecursionError"

\* C7: interpret of a text without a delimiter returns the text, calls no
\* operation and reads no context; so evaluating an output that has no
\* delimiter again returns it unchanged.
C7_NoDelimiterIdentity ==
    pc = "done" =>
        /\ Count(text, SEC) = 0 =>
               res.exc = "None" /\ res.val = text /\ res.log = <<>>
        /\ (res.exc = "None" /\ Count(res.val, SEC) = 0) =>
               Outcome(interpret(ctxs, cur, res.val, 1, <<>>)) =
                   <<"None", res.val, <<>>>>

\* A text that reads like an expression but has no delimiters.
C7_Witness ==
    /\ pc = "done"
    /\ text = <<"a">> \o sec_name \o <<LP, RP>> \o var_name \o <<LP, "k", RP>>
    /\ res.val = text

\* The head token and the kind of the expression handed to the parser first.
FirstExpression(s) == LET parts == split(s) IN IF Len(parts) >= 2 THEN parts[2] ELSE <<>>
IsComposite(e) == scan(e, 0) < Len(e) /\ At(e, scan(e, 0)) = LP
HeadToken(e) == strip(Slice(e, 0, scan(e, 0)))

\* The history has a lookup of a name that is no operation.
LooksUpUnknown(log) ==
    \E j \in 1..Len(log) : log[j][1] = "getattr" /\ log[j][2] \notin Registry

\* C9 as stated: a composite expression whose head is no registered operation
\* makes the evaluation fail with AttributeError (UnknownOperation), whatever
\* its arguments are.
C9_UnknownHeadFails ==
    (/\ pc = "done"
     /\ IsComposite(FirstExpression(text))
     /\ HeadToken(FirstExpression(text)) \notin Registry) =>
        res.exc = "AttributeError"

\* C9, amended: whenever the evaluation looks up a name that is no registered
\* operation (which it does once the arguments of that expression have been
\* evaluated without a failure), it fails with AttributeError and the failure
\* reaches the caller of the top-level interpret: no built-in at any depth
\* turns it into a result, and no output is returned.
C9_FailedLookupReachesTop ==
    (pc = "done" /\ LooksUpUnknown(res.log)) =>
        res.exc = "AttributeError" /\ res.val = <<>>

\* The unknown name is two includes down, under include_conditional twice.
C9_Witness ==
    /\ pc = "done"
    /\ text = <<"a">> \o Call(include_conditional_name, <<"k">>) \o <<"b">>
    /\ Resolved(<<"k">>) = Call(include_conditional_name, <<"m">>)
    /\ Resolved(<<"m">>) = Call(nope_name, <<"x">>)
    /\ LooksUpUnknown(res.log)
    /\ res.exc = "AttributeError"

\* C10: for a key bound in the chain, include_conditional(key) ends as
\* include(key) does: with the same string, or with the same failure.
C10_ConditionalAsInclude ==
    pc = "done" =>
        \A key \in EvalKeys :
            (text = Call(include_conditional_name, key) /\ ~Unbound(key)) =>
                LET r == interpret(ctxs, cur, Call(include_name, key), 1, <<>>)
                IN  res.exc = r.exc /\ res.val = r.val

====
